---- MODULE Spec2Model ----
(***************************************************************************)
(* Model of gtfs-utils: the stop-sequence consolidation engine             *)
(* (src/merge.rs, src/merge/dag.rs, src/multimap.rs, src/types.rs) and the *)
(* radius/diameter utility (src/radius.rs).                                *)
(*                                                                         *)
(* Stops are shared instances (Arc<Stop>); a stop instance is named by a   *)
(* string and its memory address is addr[stop].  Strings that the code     *)
(* compares lexically (route ids) are modelled by naturals with the same   *)
(* order.  Option<T> is a sequence of length 0 (None) or 1 (Some).         *)
(***************************************************************************)
EXTENDS Integers, Sequences, FiniteSets, TLC

\* ------------------------------------------------------------------ bounds
NumStops == 3
MaxVisits == 5
MaxTrips == 2
RouteTrips == 3
MaxPoints == 3
MaxDist == 3
LongStops == 9

VARIABLES
    trips,           \* input: the iterator of trips handed to stops_by_route
    args,            \* input: Args (merge_routes, direction_from_trip_name)
    addr,            \* input: address of every stop instance
    pc,              \* position of the driver
    trips_by_route,  \* merge.rs:14  MultiMap<RouteDir, &Trip>
    stops_by_route,  \* merge.rs:25  MultiMap<RouteDir, Arc<Stop>>
    gi,              \* merge.rs:26  index of the group the for loop is at
    nodes,           \* dag.rs:31    Dag.nodes of the group being merged
    ti, si,          \* merge.rs:38,40  trip / stop_time the loops are at
    parent,          \* merge.rs:39  Option<Arc<Stop>>
    heads,           \* dag.rs:61    Vec<(K, Node)>
    tails,           \* dag.rs:63    BTreeMap<K, Node>
    output,          \* dag.rs:74    Vec<V>
    merged,          \* result of merge_trips for the current group
    result,          \* result of stops_by_route
    batchOf,         \* history: the pop after which a key was pushed on heads
    pushed,          \* history: the keys pushed on heads, in the order of the pushes
    calls,           \* history: keys merge_trips has been called for
    runs, prev,      \* reruns left on the same input, result of the last run
    dist, rd_i, rd_acc,  \* radius.rs: d(i, j), fold position and accumulator
    tj,              \* main.rs:100,160  trip the report's for loop is at
    pattern,         \* main.rs:170  BitVec of the trip scanned last
    patterns_by_route,   \* main.rs:158  BTreeMap<RouteDir, BTreeMap<BitVec, count>>
    tables,          \* main.rs:98   BTreeMap<RouteDir, Table>
    logged,          \* main.rs:123  log::error! was reached
    rendered         \* main.rs:183-204  the tables printed, in order

vars == <<trips, args, addr, pc, trips_by_route, stops_by_route, gi, nodes,
          ti, si, parent, heads, tails, output, merged, result, batchOf,
          pushed, calls, runs, prev, dist, rd_i, rd_acc,
          tj, pattern, patterns_by_route, tables, logged, rendered>>

\* --------------------------------------------------------------- helpers
StopNames == <<"A", "B", "C", "D", "E", "F", "G", "H", "I", "J", "K", "L">>
Stops == {StopNames[i] : i \in 1..NumStops}

None == <<>>
Some(x) == <<x>>

Max(a, b) == IF a >= b THEN a ELSE b
Min(a, b) == IF a <= b THEN a ELSE b

SeqsUpTo(S, n) == UNION {[1..k -> S] : k \in 0..n}

\* addresses of the stop instances, rising or falling with their names; the
\* trips range over all sequences of stops, so one placement per
\* specification meets every order of the keys of the stops visited
AddrAscending(n) == [s \in {StopNames[i] : i \in 1..n} |->
                        CHOOSE i \in 1..n : StopNames[i] = s]
AddrDescending(n) == [s \in {StopNames[i] : i \in 1..n} |->
                        n + 1 - (CHOOSE i \in 1..n : StopNames[i] = s)]

Injections(S, T) == {f \in [S -> T] : \A x, y \in S : x # y => f[x] # f[y]}

\* ascending iteration of a BTreeSet / the keys of a BTreeMap
RECURSIVE Ascending(_)
Ascending(S) ==
    IF S = {} THEN <<>>
    ELSE LET m == CHOOSE x \in S : \A y \in S : x <= y
         IN <<m>> \o Ascending(S \ {m})

\* descending iteration (the order a reversed iterator would give)
RECURSIVE Descending(_)
Descending(S) ==
    IF S = {} THEN <<>>
    ELSE LET m == CHOOSE x \in S : \A y \in S : x >= y
         IN <<m>> \o Descending(S \ {m})

Without(f, k) == [x \in DOMAIN f \ {k} |-> f[x]]
With(f, k, v) == [x \in DOMAIN f \cup {k} |-> IF x = k THEN v ELSE f[x]]
EmptyMap == [x \in {} |-> 0]

\* ------------------------------------------------------------- types.rs
DirOrd(d) == CASE d = "None" -> 0 [] d = "Inbound" -> 1 [] d = "Outbound" -> 2

\* impl From<Option<DirectionType>> for Direction
DirectionFromType(val) ==
    IF val = None THEN "None"
    ELSE IF val[1] = "Inbound" THEN "Inbound" ELSE "Outbound"

\* impl From<Option<u32>> for Direction
DirectionFromU32(val) ==
    IF val = None THEN "None"
    ELSE IF val[1] % 2 = 0 THEN "Inbound" ELSE "Outbound"

\* name.parse::<u32>().ok(): a negative number stands for non-numeric text
ParseU32(name) == IF name >= 0 THEN Some(name) ELSE None

DirectionFromTrip(trip, direction_from_trip_name) ==
    IF direction_from_trip_name
    THEN DirectionFromU32(IF trip.trip_short_name = None THEN None
                          ELSE ParseU32(trip.trip_short_name[1]))
    ELSE DirectionFromType(trip.direction_id)

RouteDirFromTrip(trip, a) ==
    [route_id |-> IF a.merge_routes THEN None ELSE Some(trip.route_id),
     direction |-> DirectionFromTrip(trip, a.direction_from_trip_name)]

\* derived Ord of Option<String>: None < Some(_), then the strings
OptLess(x, y) ==
    \/ x = None /\ y # None
    \/ x # None /\ y # None /\ x[1] < y[1]

\* derived Ord of RouteDir: route_id, then direction
RouteDirLess(x, y) ==
    \/ OptLess(x.route_id, y.route_id)
    \/ x.route_id = y.route_id /\ DirOrd(x.direction) < DirOrd(y.direction)

\* ---------------------------------------------------------- multimap.rs
\* A BTreeMap<K, Vec<V>> is the sequence of its entries in iteration order.
MapKeys(map) == {map[i].key : i \in 1..Len(map)}

\* a map that keeps its entries in insertion order
AppendPos(map, key) ==
    IF \E i \in 1..Len(map) : map[i].key = key
    THEN CHOOSE i \in 1..Len(map) : map[i].key = key
    ELSE Len(map) + 1

\* position at which BTreeMap::entry finds or places the key
EntryPos(map, key) ==
    1 + Cardinality({i \in 1..Len(map) : RouteDirLess(map[i].key, key)})

InsertBulk(map, key, values) ==
    LET p == EntryPos(map, key)
    IN IF p <= Len(map) /\ map[p].key = key
       THEN [map EXCEPT ![p].vals = @ \o values]
       ELSE SubSeq(map, 1, p - 1) \o <<[key |-> key, vals |-> values]>>
            \o SubSeq(map, p, Len(map))

MultiMapInsert(map, key, value) ==
    LET p == EntryPos(map, key)
    IN IF p <= Len(map) /\ map[p].key = key
       THEN [map EXCEPT ![p].vals = Append(@, value)]
       ELSE SubSeq(map, 1, p - 1) \o <<[key |-> key, vals |-> <<value>>]>>
            \o SubSeq(map, p, Len(map))

RECURSIVE FromIter(_, _)
FromIter(items, map) ==
    IF items = <<>> THEN map
    ELSE FromIter(Tail(items), MultiMapInsert(map, Head(items)[1], Head(items)[2]))

\* ------------------------------------------------------------ merge/dag.rs
\* a key that two distinct instances can share
PtrKeyShared(stop) == Min(addr[stop], 2)

\* impl From<&P> for PtrKey<T>: the address the Arc points at
PtrKey(stop) == addr[stop]

NewNode(value) == [value |-> value, parents |-> {}, children |-> {}]

\* insert_child with the two ends of the edge exchanged
InsertChildSwapped(ns, par, child) ==
    LET idx == PtrKey(child)
        ns1 == IF idx \in DOMAIN ns THEN ns ELSE With(ns, idx, NewNode(child))
    IN IF par = None THEN [nodes |-> ns1, err |-> ""]
       ELSE LET pk == PtrKey(par[1])
                ns2 == [ns1 EXCEPT ![idx].children = @ \cup {pk}]
            IN IF pk \notin DOMAIN ns2
               THEN [nodes |-> ns2, err |-> "parent node not found"]
               ELSE [nodes |-> [ns2 EXCEPT ![pk].parents = @ \cup {idx}],
                     err |-> ""]

\* insert_child with BTreeMap::insert in place of entry().or_insert_with()
InsertChildOverwrite(ns, par, child) ==
    LET idx == PtrKey(child)
        ns1 == With(ns, idx, NewNode(child))
    IN IF par = None THEN [nodes |-> ns1, err |-> ""]
       ELSE LET pk == PtrKey(par[1])
                ns2 == [ns1 EXCEPT ![idx].parents = @ \cup {pk}]
            IN IF pk \notin DOMAIN ns2
               THEN [nodes |-> ns2, err |-> "parent node not found"]
               ELSE [nodes |-> [ns2 EXCEPT ![pk].children = @ \cup {idx}],
                     err |-> ""]

\* insert_child that records the child at the parent but not the parent at
\* the child
InsertChildOneWay(ns, par, child) ==
    LET idx == PtrKey(child)
        ns1 == IF idx \in DOMAIN ns THEN ns ELSE With(ns, idx, NewNode(child))
    IN IF par = None THEN [nodes |-> ns1, err |-> ""]
       ELSE LET pk == PtrKey(par[1])
            IN IF pk \notin DOMAIN ns1
               THEN [nodes |-> ns1, err |-> "parent node not found"]
               ELSE [nodes |-> [ns1 EXCEPT ![pk].children = @ \cup {idx}],
                     err |-> ""]

\* Dag::insert_child; err = "" stands for Ok(())
InsertChild(ns, par, child) ==
    LET idx == PtrKey(child)
        ns1 == IF idx \in DOMAIN ns THEN ns ELSE With(ns, idx, NewNode(child))
    IN IF par = None THEN [nodes |-> ns1, err |-> ""]
       ELSE LET pk == PtrKey(par[1])
                ns2 == [ns1 EXCEPT ![idx].parents = @ \cup {pk}]
            IN IF pk \notin DOMAIN ns2
               THEN [nodes |-> ns2, err |-> "parent node not found"]
               ELSE [nodes |-> [ns2 EXCEPT ![pk].children = @ \cup {idx}],
                     err |-> ""]

\* children walked from the largest key down
ChildOrderRev(children) == Descending(children)

\* the order in which flatten walks node.children (a BTreeSet)
ChildOrder(children) == Ascending(children)

\* dag.rs:65-71: nodes without parents, pushed in key order
InitialHeads(ns) ==
    LET ks == Ascending({k \in DOMAIN ns : ns[k].parents = {}})
    IN [i \in 1..Len(ks) |-> [idx |-> ks[i], node |-> ns[ks[i]]]]

InitialTails(ns) ==
    LET ks == {k \in DOMAIN ns : ns[k].parents # {}}
    IN [k \in ks |-> ns[k]]

\* a child freed by the first of its parents
FreedEarly(node) == TRUE

\* a child moves from tails to heads once its parent set is empty
Freed(node) == node.parents = {}

\* dag.rs:77-89: the loop over the children of the popped node idx;
\* st = [heads, tails, panic], panic = "" while no panic! was reached
RECURSIVE FreeChildren(_, _, _)
FreeChildren(chs, idx, st) ==
    IF chs = <<>> \/ st.panic # "" THEN st
    ELSE LET ch == Head(chs)
         IN IF ch \notin DOMAIN st.tails
            THEN [st EXCEPT !.panic = "failed to find"]
            ELSE IF idx \notin st.tails[ch].parents
            THEN [st EXCEPT !.panic = "child node missing parent"]
            ELSE LET node == [st.tails[ch] EXCEPT !.parents = @ \ {idx}]
                 IN IF Freed(node)
                    THEN FreeChildren(Tail(chs), idx,
                            [st EXCEPT !.heads = Append(@, [idx |-> ch, node |-> node]),
                                       !.tails = Without(@, ch)])
                    ELSE FreeChildren(Tail(chs), idx,
                            [st EXCEPT !.tails = [@ EXCEPT ![ch] = node]])

\* a frontier without an order: any head may come out
PopAny(hs) == 1..Len(hs)

\* Vec::pop takes the last element
PopChoices(hs) == {Len(hs)}

\* flatten without the check for left-over tails
FlattenAlwaysOk(tl, out) == [tag |-> "Ok", val |-> out, msg |-> ""]

\* dag.rs:92-98
FlattenResult(tl, out) ==
    IF DOMAIN tl = {} THEN [tag |-> "Ok", val |-> out, msg |-> ""]
    ELSE [tag |-> "Err", val |-> <<>>, msg |-> "Cycle in graph"]

\* --------------------------------------------------------------- merge.rs
NoPos == <<0, 0>>

\* first stop_time at or after trip t: the for loops skip empty trips
RECURSIVE FirstPosFrom(_, _)
FirstPosFrom(trs, t) ==
    IF t > Len(trs) THEN NoPos
    ELSE IF trs[t].stop_times = <<>> THEN FirstPosFrom(trs, t + 1)
    ELSE <<t, 1>>

NextPos(trs, t, s) ==
    IF s < Len(trs[t].stop_times) THEN <<t, s + 1>> ELSE FirstPosFrom(trs, t + 1)

\* merge.rs:16-21: the (key, trip) pairs the iterator yields
KeyedTrips(ts, a) == [i \in 1..Len(ts) |-> <<RouteDirFromTrip(ts[i], a), ts[i]>>]

NoResult == [tag |-> "None", val |-> <<>>, msg |-> "", route |-> <<>>]
NoMerge == [tag |-> "None", val |-> <<>>, msg |-> ""]

\* a best-effort loop that goes on after a failed group
OnMergedSkip(m) == "insert"

\* merge.rs:28: what the for loop does with the Result of merge_trips:
\* "return" the error, or "insert" the stops and go on
OnMerged(m) == IF m.tag = "Err" THEN "return" ELSE "insert"

CurKey == trips_by_route[gi].key
CurTrips == trips_by_route[gi].vals

\* the state of the program before stops_by_route is called
Idle ==
    /\ trips_by_route = <<>>
    /\ stops_by_route = <<>>
    /\ gi = 0
    /\ nodes = EmptyMap
    /\ ti = 0
    /\ si = 0
    /\ parent = None
    /\ heads = <<>>
    /\ tails = EmptyMap
    /\ output = <<>>
    /\ merged = NoMerge
    /\ result = NoResult
    /\ batchOf = EmptyMap
    /\ pushed = <<>>
    /\ calls = <<>>

Fresh == pc = "start" /\ Idle

\* bitvec.rs:2-5
NoBitVec == [bytes |-> <<>>, len |-> 0]

NoReport ==
    /\ tj = 0
    /\ pattern = NoBitVec
    /\ patterns_by_route = <<>>
    /\ tables = <<>>
    /\ logged = FALSE
    /\ rendered = <<>>

NoRadius ==
    /\ dist = EmptyMap
    /\ rd_i = 0
    /\ rd_acc = <<0, 0>>

inputs == <<trips, args, addr>>
radius_vars == <<dist, rd_i, rd_acc>>
report_vars == <<tj, pattern, patterns_by_route, tables, logged, rendered>>
dag_vars == <<nodes, ti, si, parent, heads, tails, output, batchOf, pushed>>

\* merge.rs:14-25
Collect ==
    /\ pc = "start"
    /\ trips_by_route' = FromIter(KeyedTrips(trips, args), <<>>)
    /\ stops_by_route' = <<>>
    /\ gi' = 1
    /\ pc' = "loop"
    /\ UNCHANGED <<inputs, dag_vars, merged, result, calls, runs, prev, radius_vars,
                   report_vars>>

\* merge.rs:26-27, 37-38: the next group; merge_trips is called with a new Dag
BeginGroup ==
    /\ pc = "loop"
    /\ gi <= Len(trips_by_route)
    /\ LET pos == FirstPosFrom(CurTrips, 1)
       IN /\ ti' = pos[1]
          /\ si' = pos[2]
          /\ pc' = IF pos = NoPos THEN "flatten" ELSE "build"
    /\ nodes' = EmptyMap
    /\ parent' = None
    /\ heads' = <<>>
    /\ tails' = EmptyMap
    /\ output' = <<>>
    /\ batchOf' = EmptyMap
    /\ pushed' = <<>>
    /\ merged' = NoMerge
    /\ calls' = Append(calls, CurKey)
    /\ UNCHANGED <<inputs, trips_by_route, stops_by_route, gi, result, runs, prev,
                   radius_vars,
                   report_vars>>

\* merge.rs:40-44: one stop_time of one trip
InsertChildStep ==
    /\ pc = "build"
    /\ LET child == CurTrips[ti].stop_times[si]
           r == InsertChild(nodes, parent, child)
           pos == NextPos(CurTrips, ti, si)
       IN /\ nodes' = r.nodes
          /\ IF r.err # ""
             THEN /\ merged' = [tag |-> "Err", val |-> <<>>, msg |-> r.err]
                  /\ pc' = "merged"
                  /\ UNCHANGED <<ti, si, parent>>
             ELSE /\ ti' = pos[1]
                  /\ si' = pos[2]
                  /\ parent' = IF pos[1] = ti THEN Some(child) ELSE None
                  /\ pc' = IF pos = NoPos THEN "flatten" ELSE "build"
                  /\ UNCHANGED merged
    /\ UNCHANGED <<inputs, trips_by_route, stops_by_route, gi, heads, tails, output,
                   batchOf, pushed, result, calls, runs, prev, radius_vars,
                   report_vars>>

\* dag.rs:60-74
FlattenInit ==
    /\ pc = "flatten"
    /\ heads' = InitialHeads(nodes)
    /\ tails' = InitialTails(nodes)
    /\ output' = <<>>
    /\ batchOf' = [k \in {k \in DOMAIN nodes : nodes[k].parents = {}} |-> 0]
    /\ pushed' = [i \in 1..Len(InitialHeads(nodes)) |-> InitialHeads(nodes)[i].idx]
    /\ pc' = "pop"
    /\ UNCHANGED <<inputs, trips_by_route, stops_by_route, gi, nodes, ti, si, parent,
                   merged, result, calls, runs, prev, radius_vars,
                   report_vars>>

\* dag.rs:75-90: one iteration of the while loop
FlattenPop ==
    /\ pc = "pop"
    /\ heads # <<>>
    /\ \E i \in PopChoices(heads) :
         LET idx == heads[i].idx
             node == heads[i].node
             rest == SubSeq(heads, 1, i - 1) \o SubSeq(heads, i + 1, Len(heads))
             st == FreeChildren(ChildOrder(node.children), idx,
                                [heads |-> rest, tails |-> tails, panic |-> ""])
             added == SubSeq(st.heads, Len(rest) + 1, Len(st.heads))
             new == {added[j].idx : j \in 1..Len(added)}
         IN /\ output' = Append(output, node.value)
            /\ heads' = st.heads
            /\ tails' = st.tails
            /\ batchOf' = [k \in DOMAIN batchOf \cup new |->
                              IF k \in new THEN Len(output) + 1 ELSE batchOf[k]]
            /\ pushed' = pushed \o [j \in 1..Len(added) |-> added[j].idx]
            /\ IF st.panic # ""
               THEN /\ pc' = "panicked"
                    /\ merged' = [tag |-> "Panic", val |-> <<>>, msg |-> st.panic]
               ELSE /\ pc' = "pop"
                    /\ UNCHANGED merged
    /\ UNCHANGED <<inputs, trips_by_route, stops_by_route, gi, nodes, ti, si, parent,
                   result, calls, runs, prev, radius_vars,
                   report_vars>>

\* dag.rs:92-98
FlattenFinish ==
    /\ pc = "pop"
    /\ heads = <<>>
    /\ merged' = FlattenResult(tails, output)
    /\ pc' = "merged"
    /\ UNCHANGED <<inputs, trips_by_route, stops_by_route, gi, dag_vars, result,
                   calls, runs, prev, radius_vars,
                   report_vars>>

\* merge.rs:28-29
MergeReturn ==
    /\ pc = "merged"
    /\ IF OnMerged(merged) = "return"
       THEN /\ result' = [tag |-> "Err", val |-> <<>>, msg |-> merged.msg,
                          route |-> Some(CurKey)]
            /\ pc' = "done"
            /\ UNCHANGED <<stops_by_route, gi>>
       ELSE /\ stops_by_route' = InsertBulk(stops_by_route, CurKey, merged.val)
            /\ gi' = gi + 1
            /\ pc' = "loop"
            /\ UNCHANGED result
    /\ UNCHANGED <<inputs, trips_by_route, dag_vars, merged, calls, runs, prev,
                   radius_vars,
                   report_vars>>

\* merge.rs:31
ReturnOk ==
    /\ pc = "loop"
    /\ gi > Len(trips_by_route)
    /\ result' = [tag |-> "Ok", val |-> stops_by_route, msg |-> "", route |-> None]
    /\ pc' = "done"
    /\ UNCHANGED <<inputs, trips_by_route, stops_by_route, gi, dag_vars, merged,
                   calls, runs, prev, radius_vars,
                   report_vars>>

\* the caller runs stops_by_route again on the same trips and stop instances
Rerun ==
    /\ pc = "done"
    /\ runs > 0
    /\ runs' = runs - 1
    /\ prev' = result
    /\ pc' = "start"
    /\ trips_by_route' = <<>>
    /\ stops_by_route' = <<>>
    /\ gi' = 0
    /\ nodes' = EmptyMap
    /\ ti' = 0
    /\ si' = 0
    /\ parent' = None
    /\ heads' = <<>>
    /\ tails' = EmptyMap
    /\ output' = <<>>
    /\ merged' = NoMerge
    /\ result' = NoResult
    /\ batchOf' = EmptyMap
    /\ pushed' = <<>>
    /\ calls' = <<>>
    /\ UNCHANGED <<inputs, radius_vars,
                   report_vars>>

\* --------------------------------------------------------------- radius.rs
NumPoints == Cardinality({p \in DOMAIN dist : p[1] = p[2]})

\* Iterator::reduce(f64::max): None for an empty iterator
RECURSIVE ReduceMax(_, _)
ReduceMax(n, i) ==
    IF n = 0 THEN None
    ELSE IF n = 1 THEN Some(dist[<<i, 1>>])
    ELSE Some(Max(ReduceMax(n - 1, i)[1], dist[<<i, n>>]))

\* radius.rs:24: the accumulator the fold starts from
FoldInit == <<0, 0>>

\* radius.rs:16-24: one p1 of the outer iterator, folded into (min, max)
RadiusStep ==
    /\ pc = "radius"
    /\ rd_i <= NumPoints
    /\ LET e == ReduceMax(NumPoints, rd_i)
       IN rd_acc' = IF e = None THEN rd_acc
                    ELSE <<Min(rd_acc[1], e[1]), Max(rd_acc[2], e[1])>>
    /\ rd_i' = rd_i + 1
    /\ UNCHANGED <<inputs, pc, trips_by_route, stops_by_route, gi, dag_vars, merged,
                   result, calls, runs, prev, dist, report_vars>>

RadiusReturn ==
    /\ pc = "radius"
    /\ rd_i > NumPoints
    /\ pc' = "radius_done"
    /\ UNCHANGED <<inputs, trips_by_route, stops_by_route, gi, dag_vars, merged,
                   result, calls, runs, prev, radius_vars,
                   report_vars>>

\* --------------------------------------------------------------- bitvec.rs
BITS == 8

RECURSIVE Pow2(_)
Pow2(n) == IF n = 0 THEN 1 ELSE 2 * Pow2(n - 1)

\* byte & (1 << rem) != 0
BitTest(byte, rem) == (byte \div Pow2(rem)) % 2 = 1

\* byte | (1 << rem)
BitOr(byte, rem) == IF BitTest(byte, rem) THEN byte ELSE byte + Pow2(rem)

\* BitVec::with_size
WithSize(len) == [bytes |-> [i \in 1..((len + BITS - 1) \div BITS) |-> 0], len |-> len]

\* bits counted from the least significant end of the byte
SetRemLsb(idx) == idx % BITS

\* bitvec.rs:26: the shift of bit idx within its byte
SetRem(idx) == BITS - 1 - (idx % BITS)

\* BitVec::set, idx counted from 0
BitSet(bv, idx) ==
    IF idx >= bv.len THEN [bv |-> bv, panic |-> TRUE]
    ELSE [bv |-> [bv EXCEPT !.bytes[idx \div BITS + 1] = BitOr(@, SetRem(idx))],
          panic |-> FALSE]

\* BitVec::to_vec; a set bit at or beyond len indexes vec out of bounds
ToVec(bv) ==
    [vec |-> [k \in 1..bv.len |->
                BitTest(bv.bytes[(k - 1) \div BITS + 1], BITS - 1 - ((k - 1) % BITS))],
     panic |-> \E i \in 1..Len(bv.bytes) : \E bit \in 0..(BITS - 1) :
                  /\ BitTest(bv.bytes[i], BITS - 1 - bit)
                  /\ (i - 1) * BITS + bit >= bv.len]

\* derived Ord of Vec<u8>
RECURSIVE BytesLess(_, _)
BytesLess(a, b) ==
    IF b = <<>> THEN FALSE
    ELSE IF a = <<>> THEN TRUE
    ELSE IF a[1] # b[1] THEN a[1] < b[1]
    ELSE BytesLess(Tail(a), Tail(b))

\* derived Ord of BitVec: bytes, then len
BitVecLess(a, b) ==
    \/ BytesLess(a.bytes, b.bytes)
    \/ a.bytes = b.bytes /\ a.len < b.len

\* ---------------------------------------------------------------- table.rs
TableNew(row_headers) == [col_headers |-> <<>>, row_headers |-> row_headers, data |-> <<>>]

\* Table::add_column: the new column is the last Len(row_headers) cells of data
TableAddColumn(t, header, default) ==
    [t EXCEPT !.col_headers = Append(@, header),
              !.data = @ \o [i \in 1..Len(t.row_headers) |-> default]]

\* Table::push_column: a column with its cells
PushColumn(t, header, column) ==
    [t EXCEPT !.col_headers = Append(@, header), !.data = @ \o column]

\* ----------------------------------------------------------------- main.rs
\* Arc::ptr_eq
PtrEq(a, b) == addr[a] = addr[b]

\* BTreeMap::get
MapGet(map, key) ==
    IF \E i \in 1..Len(map) : map[i].key = key
    THEN Some(map[CHOOSE i \in 1..Len(map) : map[i].key = key].vals)
    ELSE None

\* Iterator::find on what is left of the iterator over stops, c being the
\* position it stands at: the position of the match, 0 when it runs out
Find(stops, c, target) ==
    LET hits == {i \in c..Len(stops) : PtrEq(stops[i], target)}
    IN IF hits = {} THEN 0 ELSE CHOOSE i \in hits : \A j \in hits : i <= j

\* main.rs:174-179: the scan of stopping_patterns; st = [bv, panic]
RECURSIVE ScanPattern(_, _, _, _)
ScanPattern(stops, sts, c, st) ==
    IF sts = <<>> \/ st.panic THEN st
    ELSE LET i == Find(stops, c, Head(sts))
         IN IF i = 0 THEN ScanPattern(stops, Tail(sts), Len(stops) + 1, st)
            ELSE ScanPattern(stops, Tail(sts), i + 1, BitSet(st.bv, i - 1))

\* main.rs:118-126: the scan of time_table; st = [column, logged]; the time
\* of the k-th stop_time (arrival_time.or(departure_time)) is Some(k)
RECURSIVE ScanColumn(_, _, _, _, _)
ScanColumn(stops, sts, c, k, st) ==
    IF sts = <<>> THEN st
    ELSE LET i == Find(stops, c, Head(sts))
         IN IF i = 0 THEN [st EXCEPT !.logged = TRUE]
            ELSE ScanColumn(stops, Tail(sts), i + 1, k + 1,
                            [st EXCEPT !.column[i] = Some(k)])

\* main.rs:180: *patterns.entry(pattern).or_insert(0) += 1
CountPattern(ps, bv) ==
    LET q == 1 + Cardinality({i \in 1..Len(ps) : BitVecLess(ps[i].pattern, bv)})
    IN IF q <= Len(ps) /\ ps[q].pattern = bv
       THEN [ps EXCEPT ![q].count = @ + 1]
       ELSE SubSeq(ps, 1, q - 1) \o <<[pattern |-> bv, count |-> 1]>>
            \o SubSeq(ps, q, Len(ps))

\* main.rs:167-169: patterns_by_route.entry(route_dir).or_insert_with(BTreeMap::new)
EntryOrInsert(map, key, fresh) ==
    LET p == EntryPos(map, key)
    IN IF p <= Len(map) /\ map[p].key = key THEN map
       ELSE SubSeq(map, 1, p - 1) \o <<[key |-> key, vals |-> fresh]>>
            \o SubSeq(map, p, Len(map))

\* main.rs:112: trip_short_name, or the trip id (the place of the trip)
ColumnHeader(trip, j) ==
    IF trip.trip_short_name # None THEN <<"name", trip.trip_short_name[1]>>
    ELSE <<"id", j>>

\* main.rs:189-191: the columns of one route's table; st = [table, panic]
RECURSIVE PushPatterns(_, _)
PushPatterns(ps, st) ==
    IF ps = <<>> \/ st.panic THEN st
    ELSE LET v == ToVec(Head(ps).pattern)
         IN PushPatterns(Tail(ps),
                [table |-> PushColumn(st.table, Head(ps).count, v.vec),
                 panic |-> v.panic])

report_rest == <<inputs, trips_by_route, stops_by_route, gi, dag_vars, merged, result,
                 calls, runs, prev, radius_vars>>

\* main.rs:96-98, 156-158: stops_by_route returned Ok to a report command
ReportBegin ==
    /\ pc = "done"
    /\ result.tag = "Ok"
    /\ args.command \in {"StoppingPatterns", "TimeTable"}
    /\ tj' = 1
    /\ patterns_by_route' = <<>>
    /\ tables' = <<>>
    /\ pc' = "report"
    /\ UNCHANGED <<report_rest, pattern, logged, rendered>>

\* main.rs:160-181: one trip of stopping_patterns
PatternTrip ==
    /\ pc = "report"
    /\ args.command = "StoppingPatterns"
    /\ tj <= Len(trips)
    /\ LET trip == trips[tj]
           route_dir == RouteDirFromTrip(trip, args)
           got == MapGet(result.val, route_dir)
       IN IF got = None
          THEN /\ pc' = "panicked"
               /\ UNCHANGED <<tj, pattern, patterns_by_route>>
          ELSE LET pbr == EntryOrInsert(patterns_by_route, route_dir, <<>>)
                   p == EntryPos(pbr, route_dir)
                   r == ScanPattern(got[1], trip.stop_times, 1,
                                    [bv |-> WithSize(Len(got[1])), panic |-> FALSE])
               IN /\ pattern' = r.bv
                  /\ IF r.panic
                     THEN /\ pc' = "panicked"
                          /\ patterns_by_route' = pbr
                          /\ UNCHANGED tj
                     ELSE /\ pc' = "report"
                          /\ patterns_by_route' =
                                [pbr EXCEPT ![p].vals = CountPattern(@, r.bv)]
                          /\ tj' = tj + 1
    /\ UNCHANGED <<report_rest, tables, logged, rendered>>

\* main.rs:183-207: the tables of stopping_patterns
PatternsRender ==
    /\ pc = "report"
    /\ args.command = "StoppingPatterns"
    /\ tj > Len(trips)
    /\ LET out == [g \in 1..Len(patterns_by_route) |->
                     LET got == MapGet(result.val, patterns_by_route[g].key)
                     IN IF got = None THEN [table |-> TableNew(<<>>), panic |-> TRUE]
                        ELSE PushPatterns(patterns_by_route[g].vals,
                                          [table |-> TableNew(got[1]), panic |-> FALSE])]
       IN /\ rendered' = [g \in 1..Len(out) |->
                            [key |-> patterns_by_route[g].key, table |-> out[g].table]]
          /\ pc' = IF \E g \in 1..Len(out) : out[g].panic THEN "panicked" ELSE "reported"
    /\ UNCHANGED <<report_rest, tj, pattern, patterns_by_route, tables, logged>>

\* main.rs:100-127: one trip of time_table
TimeTableTrip ==
    /\ pc = "report"
    /\ args.command = "TimeTable"
    /\ tj <= Len(trips)
    /\ LET trip == trips[tj]
           route_dir == RouteDirFromTrip(trip, args)
           got == MapGet(result.val, route_dir)
       IN IF got = None
          THEN /\ pc' = "panicked"
               /\ UNCHANGED <<tj, tables, logged>>
          ELSE LET tabs == EntryOrInsert(tables, route_dir, TableNew(got[1]))
                   p == EntryPos(tabs, route_dir)
                   start == Len(tabs[p].vals.data)
                   t1 == TableAddColumn(tabs[p].vals, ColumnHeader(trip, tj), None)
                   r == ScanColumn(got[1], trip.stop_times, 1, 1,
                                   [column |-> SubSeq(t1.data, start + 1, Len(t1.data)),
                                    logged |-> FALSE])
               IN /\ tables' = [tabs EXCEPT ![p].vals =
                                    [t1 EXCEPT !.data = SubSeq(@, 1, start) \o r.column]]
                  /\ logged' = (logged \/ r.logged)
                  /\ tj' = tj + 1
                  /\ pc' = "report"
    /\ UNCHANGED <<report_rest, pattern, patterns_by_route, rendered>>

\* main.rs:129-145: the tables of time_table
TimeTableRender ==
    /\ pc = "report"
    /\ args.command = "TimeTable"
    /\ tj > Len(trips)
    /\ rendered' = [g \in 1..Len(tables) |->
                       [key |-> tables[g].key, table |-> tables[g].vals]]
    /\ pc' = "reported"
    /\ UNCHANGED <<report_rest, tj, pattern, patterns_by_route, tables, logged>>

\* ---------------------------------------------------------- specifications
PlainTrip(st) == [route_id |-> 1, direction_id |-> None, trip_short_name |-> None,
                  stop_times |-> st]

NoArgs == [merge_routes |-> FALSE, direction_from_trip_name |-> FALSE,
           command |-> "RouteSummary"]

\* the trips got by cutting the stop sequence flat after the positions cuts
CutTrips(flat, cuts) ==
    [t \in 1..Len(cuts) |->
        PlainTrip(SubSeq(flat, (IF t = 1 THEN 0 ELSE cuts[t - 1]) + 1, cuts[t]))]

\* up to MaxTrips trips (empty ones too) with MaxVisits stop_times in all
OneGroup ==
    \E n \in 0..MaxVisits : \E flat \in [1..n -> Stops] :
        \E k \in 0..MaxTrips : \E cuts \in [1..k -> 0..n] :
            /\ \A t \in 1..k : t > 1 => cuts[t - 1] <= cuts[t]
            /\ IF k = 0 THEN n = 0 ELSE cuts[k] = n
            /\ trips = CutTrips(flat, cuts)

\* one route/direction group of trips over Stops
Init ==
    /\ OneGroup
    /\ args = NoArgs
    /\ addr = AddrDescending(NumStops)
    /\ Fresh
    /\ runs = 0
    /\ prev = NoResult
    /\ NoRadius
    /\ NoReport

Next ==
    \/ Collect
    \/ BeginGroup
    \/ InsertChildStep
    \/ FlattenInit
    \/ FlattenPop
    \/ FlattenFinish
    \/ MergeReturn
    \/ ReturnOk

Spec == Init /\ [][Next]_vars

\* the same group consolidated twice by the same process
InitDet ==
    /\ OneGroup
    /\ args = NoArgs
    /\ addr = AddrDescending(NumStops)
    /\ Fresh
    /\ runs = 1
    /\ prev = NoResult
    /\ NoRadius
    /\ NoReport

NextDet == Next \/ Rerun

SpecDet == InitDet /\ [][NextDet]_vars

\* the branch merge example: Trip1 = [A, B, C], Trip2 = [A, B, D, C], in
\* either order, the four stops at any addresses
BranchStops == {"A", "B", "C", "D"}
Trip1 == PlainTrip(<<"A", "B", "C">>)
Trip2 == PlainTrip(<<"A", "B", "D", "C">>)

InitBranch ==
    /\ trips \in {<<Trip1, Trip2>>, <<Trip2, Trip1>>}
    /\ args = NoArgs
    /\ addr \in Injections(BranchStops, 1..Cardinality(BranchStops))
    /\ Fresh
    /\ runs = 0
    /\ prev = NoResult
    /\ NoRadius
    /\ NoReport

SpecBranch == InitBranch /\ [][Next]_vars

\* trips of several routes and directions; the field from_trip does not read
\* under the chosen Args is left empty
RouteStopSeqs == {<<"A", "B">>, <<"A", "A">>}

RouteTripSet(a) ==
    {[route_id |-> r, direction_id |-> d, trip_short_name |-> n, stop_times |-> st] :
        r \in 1..2,
        d \in IF a.direction_from_trip_name THEN {None}
              ELSE {None, Some("Inbound"), Some("Outbound")},
        n \in IF a.direction_from_trip_name THEN {None, Some(-1), Some(1), Some(2)}
              ELSE {None},
        st \in RouteStopSeqs}

InitRoutes ==
    /\ args \in [merge_routes : BOOLEAN, direction_from_trip_name : BOOLEAN,
                 command : {"RouteSummary"}]
    /\ trips \in SeqsUpTo(RouteTripSet(args), RouteTrips)
    /\ addr = AddrAscending(NumStops)
    /\ Fresh
    /\ runs = 0
    /\ prev = NoResult
    /\ NoRadius
    /\ NoReport

SpecRoutes == InitRoutes /\ [][Next]_vars

\* the report commands over one group, over trips of several routes and
\* directions, and over a trip of LongStops stops with a trip that skips some
LongTrip == [i \in 1..LongStops |-> StopNames[i]]

SubTrip(keep) == [i \in 1..Cardinality(keep) |-> LongTrip[Ascending(keep)[i]]]

InitReports ==
    /\ \E c \in {"StoppingPatterns", "TimeTable"} :
          \/ /\ OneGroup
             /\ args = [NoArgs EXCEPT !.command = c]
             /\ addr = AddrDescending(NumStops)
          \/ /\ args \in [merge_routes : BOOLEAN, direction_from_trip_name : BOOLEAN,
                           command : {c}]
             /\ trips \in SeqsUpTo(RouteTripSet(args), MaxTrips)
             /\ addr = AddrAscending(NumStops)
          \/ /\ \E keep \in SUBSET (1..LongStops) :
                   trips = <<PlainTrip(LongTrip), PlainTrip(SubTrip(keep))>>
             /\ args = [NoArgs EXCEPT !.command = c]
             /\ addr = AddrDescending(LongStops)
    /\ Fresh
    /\ runs = 0
    /\ prev = NoResult
    /\ NoRadius
    /\ NoReport

NextReports ==
    \/ Next
    \/ ReportBegin
    \/ PatternTrip
    \/ PatternsRender
    \/ TimeTableTrip
    \/ TimeTableRender

SpecReports == InitReports /\ [][NextReports]_vars

\* radius_and_diameter over up to MaxPoints points; d is symmetric, d(i, i) = 0
PointPairs(n) == {p \in (1..n) \X (1..n) : p[1] < p[2]}

InitRadius ==
    /\ \E n \in 0..MaxPoints : \E f \in [PointPairs(n) -> 0..MaxDist] :
          dist = [p \in (1..n) \X (1..n) |->
                    IF p[1] = p[2] THEN 0
                    ELSE IF p[1] < p[2] THEN f[p] ELSE f[<<p[2], p[1]>>]]
    /\ rd_i = 1
    /\ rd_acc = FoldInit
    /\ pc = "radius"
    /\ Idle
    /\ trips = <<>>
    /\ args = NoArgs
    /\ addr = EmptyMap
    /\ runs = 0
    /\ prev = NoResult
    /\ NoReport

NextRadius == RadiusStep \/ RadiusReturn

SpecRadius == InitRadius /\ [][NextRadius]_vars

\* ------------------------------------------------------- reference notions
\* the trips of one (route, direction) key, read off the input
TripsOf(key) == SelectSeq(trips, LAMBDA t : RouteDirFromTrip(t, args) = key)

Range(f) == {f[i] : i \in DOMAIN f}

\* stops visited by a sequence of trips
Visited(trs) == UNION {Range(trs[t].stop_times) : t \in 1..Len(trs)}

\* "immediately follows" pairs of a sequence of trips
Adjacent(trs) ==
    UNION {{<<trs[t].stop_times[s], trs[t].stop_times[s + 1]>> :
                s \in 1..(Len(trs[t].stop_times) - 1)} : t \in 1..Len(trs)}

\* pairs joined by a path of at least one and at most n edges
RECURSIVE Paths(_, _)
Paths(E, n) ==
    IF n <= 1 THEN E
    ELSE LET P == Paths(E, n - 1)
         IN P \cup {<<x[1][1], x[2][2]>> : x \in {y \in P \X E : y[1][2] = y[2][1]}}

\* a directed cycle: some stop reaches itself (a cycle visits each stop once)
HasCycle(E) ==
    \E p \in Paths(E, Cardinality({e[1] : e \in E})) : p[1] = p[2]

Positions(seq, x) == {i \in 1..Len(seq) : seq[i] = x}

\* merge_trips has returned (or panicked) for the current group
Returned == pc \in {"merged", "panicked"}

\* C1: when merge_trips succeeds, every stop a trip visits earlier stands at
\* a strictly smaller position of the output than every stop it visits later
OrderConsistency ==
    (pc = "merged" /\ merged.tag = "Ok") =>
        \A t \in 1..Len(TripsOf(CurKey)) :
            LET st == TripsOf(CurKey)[t].stop_times
            IN \A i, j \in 1..Len(st) :
                 i < j =>
                    /\ Positions(merged.val, st[i]) # {}
                    /\ Positions(merged.val, st[j]) # {}
                    /\ \A p \in Positions(merged.val, st[i]) :
                          \A q \in Positions(merged.val, st[j]) : p < q

\* two trips that branch after a common stop were merged
OrderConsistencyWitness ==
    /\ pc = "merged"
    /\ merged.tag = "Ok"
    /\ Len(merged.val) = 3
    /\ \E t, u \in 1..Len(TripsOf(CurKey)) :
          /\ Len(TripsOf(CurKey)[t].stop_times) = 2
          /\ Len(TripsOf(CurKey)[u].stop_times) = 2
          /\ TripsOf(CurKey)[t].stop_times[1] = TripsOf(CurKey)[u].stop_times[1]
          /\ TripsOf(CurKey)[t].stop_times[2] # TripsOf(CurKey)[u].stop_times[2]

CycleError == [tag |-> "Err", val |-> <<>>, msg |-> "Cycle in graph"]

\* C2: merge_trips returns the "Cycle in graph" error exactly when the
\* adjacencies of the group's trips contain a directed cycle, and Ok otherwise
CycleDetection ==
    Returned =>
        /\ merged = CycleError <=> HasCycle(Adjacent(TripsOf(CurKey)))
        /\ merged.tag = "Ok" <=> ~HasCycle(Adjacent(TripsOf(CurKey)))

\* a trip visiting X, Y, X was refused with the cycle error
CycleDetectionWitness ==
    /\ pc = "merged"
    /\ merged = CycleError
    /\ \E t \in 1..Len(TripsOf(CurKey)) :
          LET st == TripsOf(CurKey)[t].stop_times
          IN Len(st) = 3 /\ st[1] = st[3] /\ st[1] # st[2]

\* a trip visiting X, X was refused with the cycle error
SelfLoopWitness ==
    /\ pc = "merged"
    /\ merged = CycleError
    /\ Len(TripsOf(CurKey)) = 1
    /\ TripsOf(CurKey)[1].stop_times \in {<<x, x>> : x \in Visited(trips)}

NoDuplicates(seq) == \A i, j \in 1..Len(seq) : seq[i] = seq[j] => i = j

\* C3: a successful consolidation lists every stop instance visited by a
\* trip of the group exactly once and nothing else, in merge_trips' result
\* and in the mapping stops_by_route returns
Completeness ==
    /\ (pc = "merged" /\ merged.tag = "Ok") =>
            /\ Range(merged.val) = Visited(TripsOf(CurKey))
            /\ NoDuplicates(merged.val)
    /\ (pc = "done" /\ result.tag = "Ok") =>
            \A g \in 1..Len(result.val) :
                /\ Range(result.val[g].vals) = Visited(TripsOf(result.val[g].key))
                /\ NoDuplicates(result.val[g].vals)

\* two trips sharing a stop were merged into a list of three stops
CompletenessWitness ==
    /\ pc = "done"
    /\ result.tag = "Ok"
    /\ Len(trips) = 2
    /\ Range(trips[1].stop_times) \cap Range(trips[2].stop_times) # {}
    /\ \E g \in 1..Len(result.val) : Len(result.val[g].vals) = 3

\* C9: while and after merge_trips scans a group, P is a parent of C iff C is
\* a child of P iff a scanned trip visits P immediately before C; there is one
\* node per stop instance scanned; a repeated adjacency leaves the graph as it is
Scanned(t, s) == pc # "build" \/ t < ti \/ (t = ti /\ s < si)

ScannedStops ==
    UNION {{CurTrips[t].stop_times[s] :
                s \in {r \in 1..Len(CurTrips[t].stop_times) : Scanned(t, r)}} :
           t \in 1..Len(CurTrips)}

ScannedEdges ==
    UNION {{<<CurTrips[t].stop_times[s - 1], CurTrips[t].stop_times[s]>> :
                s \in {r \in 2..Len(CurTrips[t].stop_times) : Scanned(t, r)}} :
           t \in 1..Len(CurTrips)}

IsParent(P, C) == addr[C] \in DOMAIN nodes /\ addr[P] \in nodes[addr[C]].parents
IsChild(C, P) == addr[P] \in DOMAIN nodes /\ addr[C] \in nodes[addr[P]].children

EdgeState ==
    pc \in {"build", "flatten"} =>
        /\ \A P, C \in DOMAIN addr :
              /\ IsParent(P, C) <=> IsChild(C, P)
              /\ IsChild(C, P) <=> <<P, C>> \in ScannedEdges
        /\ \A k \in DOMAIN nodes :
              nodes[k].parents \cup nodes[k].children \subseteq DOMAIN nodes
        /\ DOMAIN nodes = {addr[x] : x \in ScannedStops}
        /\ Cardinality(DOMAIN nodes) = Cardinality(ScannedStops)
        /\ \A x \in ScannedStops : nodes[addr[x]].value = x

RepeatStep ==
    (/\ pc = "build"
     /\ parent # None
     /\ <<parent[1], CurTrips[ti].stop_times[si]>> \in ScannedEdges) => nodes' = nodes

EdgeInvariant == []EdgeState /\ [][RepeatStep]_vars

\* an adjacency already in the graph is about to be scanned a second time,
\* in a graph with a node that has two parents
EdgeInvariantWitness ==
    /\ pc = "build"
    /\ parent # None
    /\ <<parent[1], CurTrips[ti].stop_times[si]>> \in ScannedEdges
    /\ \E k \in DOMAIN nodes : Cardinality(nodes[k].parents) = 2

\* C10: flatten emits the head pushed last; the initial heads are pushed in
\* ascending key order and the children freed by one pop in ascending key
\* order, so the emitted head has the largest key of the latest batch
PushIndex(k) == CHOOSE i \in 1..Len(pushed) : pushed[i] = k

HeadKeys == {heads[i].idx : i \in 1..Len(heads)}

LatestHead == CHOOSE k \in HeadKeys : \A h \in HeadKeys : PushIndex(h) <= PushIndex(k)

PushOrder ==
    /\ \A i, j \in 1..Len(pushed) :
          i < j => \/ batchOf[pushed[i]] < batchOf[pushed[j]]
                   \/ /\ batchOf[pushed[i]] = batchOf[pushed[j]]
                      /\ pushed[i] < pushed[j]
    /\ pc = "pop" => HeadKeys \subseteq Range(pushed)

LifoStep ==
    (pc = "pop" /\ heads # <<>>) =>
        /\ output' = Append(output, nodes[LatestHead].value)
        /\ \A h \in HeadKeys \ {LatestHead} :
              \/ batchOf[h] < batchOf[LatestHead]
              \/ batchOf[h] = batchOf[LatestHead] /\ h < LatestHead

LifoTieBreak == []PushOrder /\ [][LifoStep]_vars

\* a pop is about to choose between two children freed by the same pop
LifoTieBreakWitness ==
    /\ pc = "pop"
    /\ Len(heads) = 2
    /\ batchOf[heads[1].idx] = 1
    /\ batchOf[heads[2].idx] = 1

\* the (route, direction) keys among the input trips
Keys == {RouteDirFromTrip(trips[i], args) : i \in 1..Len(trips)}

CyclicKeys == {k \in Keys : HasCycle(Adjacent(TripsOf(k)))}

FirstCyclic == CHOOSE k \in CyclicKeys : \A j \in CyclicKeys : ~RouteDirLess(j, k)

\* C4: stops_by_route consolidates the groups in sorted key order; at the
\* first group that fails it returns the error naming that group, no later
\* group is processed and no mapping is returned
FailFast ==
    /\ \A i, j \in 1..Len(calls) : i < j => RouteDirLess(calls[i], calls[j])
    /\ pc = "done" => (result.tag = "Err" <=> CyclicKeys # {})
    /\ (pc = "done" /\ result.tag = "Err") =>
          /\ result.route = Some(FirstCyclic)
          /\ result.msg = "Cycle in graph"
          /\ result.val = <<>>
          /\ Range(calls) = {k \in Keys : ~RouteDirLess(FirstCyclic, k)}

\* a group failed after another had been consolidated, a third one waiting
FailFastWitness ==
    /\ pc = "done"
    /\ result.tag = "Err"
    /\ stops_by_route # <<>>
    /\ Len(calls) < Len(trips_by_route)

GroupingOrder ==
    (pc = "done" /\ result.tag = "Ok") =>
        /\ MapKeys(result.val) = Keys
        /\ Len(result.val) = Cardinality(Keys)
        /\ \A i, j \in 1..Len(result.val) :
              i < j => RouteDirLess(result.val[i].key, result.val[j].key)

\* the trips came in descending key order
GroupingOrderWitness ==
    /\ pc = "done"
    /\ result.tag = "Ok"
    /\ Len(trips) = 2
    /\ RouteDirLess(RouteDirFromTrip(trips[2], args), RouteDirFromTrip(trips[1], args))
    /\ RouteDirFromTrip(trips[2], args).route_id = RouteDirFromTrip(trips[1], args).route_id

\* C7: Trip1 = [A, B, C] and Trip2 = [A, B, D, C] consolidate to [A, B, D, C]
BranchOutput == <<"A", "B", "D", "C">>

BranchMerge ==
    /\ Returned => merged = [tag |-> "Ok", val |-> BranchOutput, msg |-> ""]
    /\ pc = "done" =>
          result = [tag |-> "Ok", msg |-> "", route |-> None,
                    val |-> <<[key |-> RouteDirFromTrip(Trip1, args),
                               vals |-> BranchOutput]>>]

\* Trip2 came first and D lies at a higher address than C
BranchMergeWitness ==
    /\ pc = "done"
    /\ result.tag = "Ok"
    /\ trips[1] = Trip2
    /\ addr["C"] < addr["D"]

\* C8: radius_and_diameter returns (min over i of ecc(i), max over i of
\* ecc(i)), ecc(i) = max over j of d(i, j), for a non-empty set of points
Ecc(i) == CHOOSE e \in {dist[<<i, j>>] : j \in 1..NumPoints} :
              \A j \in 1..NumPoints : dist[<<i, j>>] <= e

RadiusOf == CHOOSE r \in {Ecc(i) : i \in 1..NumPoints} :
                \A i \in 1..NumPoints : r <= Ecc(i)

DiameterOf == CHOOSE r \in {Ecc(i) : i \in 1..NumPoints} :
                  \A i \in 1..NumPoints : r >= Ecc(i)

RadiusAndDiameter ==
    (pc = "radius_done" /\ NumPoints > 0) => rd_acc = <<RadiusOf, DiameterOf>>

\* C11: driven by merge_trips, insert_child never fails with "parent node
\* not found" and flatten reaches neither panic; the parent handed to
\* insert_child always has a node, every child of a head waits in tails with
\* that head among its parents, and the only failure is the cycle error
NoDefect ==
    /\ pc # "panicked"
    /\ merged.tag \in {"None", "Ok", "Err"}
    /\ merged.tag = "Err" => merged.msg = "Cycle in graph"
    /\ result.tag = "Err" => result.msg = "Cycle in graph"
    /\ (pc = "build" /\ parent # None) => PtrKey(parent[1]) \in DOMAIN nodes
    /\ pc = "pop" =>
          \A i \in 1..Len(heads) : \A ch \in heads[i].node.children :
              ch \in DOMAIN tails /\ heads[i].idx \in tails[ch].parents

\* a group with an empty trip and a trip that revisits a stop ended in the
\* cycle error
NoDefectWitness ==
    /\ pc = "merged"
    /\ merged = CycleError
    /\ \E t \in 1..Len(CurTrips) : CurTrips[t].stop_times = <<>>
    /\ \E t \in 1..Len(CurTrips) :
          Len(CurTrips[t].stop_times) > Cardinality(Range(CurTrips[t].stop_times))

\* C12: after a successful consolidation the forward scan of stopping_patterns
\* and time_table finds every stop of every trip in the canonical list of the
\* trip's group: bit i of the trip's bitmap (cell i of its column) is set
\* exactly when the trip visits the stop at position i, nothing is logged as
\* not found, and each printed pattern counts the trips with that bitmap
LastTrip == trips[tj - 1]

Canonical(trip) == MapGet(result.val, RouteDirFromTrip(trip, args))[1]

VisitVector(trip) ==
    [i \in 1..Len(Canonical(trip)) |-> Canonical(trip)[i] \in Range(trip.stop_times)]

LastColumn(t) == SubSeq(t.data, Len(t.data) - Len(t.row_headers) + 1, Len(t.data))

ColumnOf(t, c) ==
    SubSeq(t.data, (c - 1) * Len(t.row_headers) + 1, c * Len(t.row_headers))

Projection ==
    /\ pc # "panicked"
    /\ ~logged
    /\ (pc = "report" /\ tj > 1) =>
          /\ MapGet(result.val, RouteDirFromTrip(LastTrip, args)) # None
          /\ Range(LastTrip.stop_times) \subseteq Range(Canonical(LastTrip))
          /\ args.command = "StoppingPatterns" =>
                /\ pattern.len = Len(Canonical(LastTrip))
                /\ ~ToVec(pattern).panic
                /\ ToVec(pattern).vec = VisitVector(LastTrip)
          /\ args.command = "TimeTable" =>
                LET col == LastColumn(MapGet(tables, RouteDirFromTrip(LastTrip, args))[1])
                IN /\ Len(col) = Len(Canonical(LastTrip))
                   /\ \A i \in 1..Len(col) : col[i] # None <=> VisitVector(LastTrip)[i]
    /\ (pc = "reported" /\ args.command = "StoppingPatterns") =>
          /\ {rendered[g].key : g \in 1..Len(rendered)} = Keys
          /\ \A g \in 1..Len(rendered) :
                LET t == rendered[g].table
                    mine == {j \in 1..Len(trips) :
                                RouteDirFromTrip(trips[j], args) = rendered[g].key}
                IN /\ t.row_headers = MapGet(result.val, rendered[g].key)[1]
                   /\ \A j \in mine :
                         \E c \in 1..Len(t.col_headers) :
                            ColumnOf(t, c) = VisitVector(trips[j])
                   /\ \A c \in 1..Len(t.col_headers) :
                         t.col_headers[c] =
                            Cardinality({j \in mine : VisitVector(trips[j]) = ColumnOf(t, c)})

\* stopping_patterns scanned a trip that skips stops of a canonical list
\* longer than one byte and visits its last stop
ProjectionWitness ==
    /\ pc = "report"
    /\ args.command = "StoppingPatterns"
    /\ tj = 3
    /\ Len(pattern.bytes) = 2
    /\ Len(LastTrip.stop_times) \in 2..(pattern.len - 1)
    /\ ToVec(pattern).vec[pattern.len]
    /\ ~ToVec(pattern).vec[1]

\* time_table filled the column of a trip that skips a stop
ProjectionTableWitness ==
    /\ pc = "report"
    /\ args.command = "TimeTable"
    /\ tj = 3
    /\ Len(LastTrip.stop_times) = 2
    /\ Len(Canonical(LastTrip)) = 3

====
